---- MODULE Spec2Model ----
(***************************************************************************)
(* django-klingon, klingon/models.py: the Translation table and the        *)
(* Translatable mixin (translate, translations, get_translation_obj,       *)
(* get_translation, set_translation) run by concurrent request handlers    *)
(* against one database table and one shared cache.                        *)
(*                                                                         *)
(* Collaborators outside the repository are modelled by their contract:    *)
(*   - the database: SELECT, INSERT (refused by the unique index with an   *)
(*     IntegrityError) and UPDATE by primary key are each atomic;          *)
(*   - QuerySet.get_or_create: get, on DoesNotExist insert, on             *)
(*     IntegrityError get again, on DoesNotExist re-raise;                 *)
(*   - the cache: a key-value map, get(key, default) and set(key, value),  *)
(*     entries do not expire.                                              *)
(***************************************************************************)
EXTENDS Integers, Sequences, FiniteSets, TLC

\* ---------------------------------------------------------------- bounds
\* Operations (calls of the Translatable API and assignments to an entity's
\* own attribute) started in one behaviour.
MaxOps == 3

\* ------------------------------------------------------- program constants
\* Concurrent request handlers.
Procs == {"p1", "p2"}

\* settings.LANGUAGES: (code, name) pairs in configured order.
LANGUAGES == << <<"fr", "French">>, <<"en", "English">> >>

\* translatable_fields of the models that mix Translatable in.
translatable_fields == <<"title", "body">>

\* Model instances using the mixin: two apps each define a model class named
\* Book, and a row with id 1 exists in both tables.
Entities ==
    { [app_label |-> "library", object_name |-> "Book", id |-> 1],
      [app_label |-> "shop",    object_name |-> "Book", id |-> 1] }

\* lang arguments callers pass.
LangArgs == {"en"}
\* field arguments callers pass: a translatable field and a name that is
\* neither translatable nor an attribute of the entity.
FieldArgs == {"title", "slug"}
\* text arguments of set_translation.
TextArgs == {"", "x", "y"}
\* values assigned to an entity's own title attribute.
AttrVals == {"Hello", "Hola"}

\* Python's None (the default of Translation.translation, null=True).
None == "<None>"
\* A truth test that takes every value for empty.
Not_always(v) == TRUE

\* Python truthiness of a string or None: `not v`.
Not(v) == v = "" \/ v = None

\* No row: the value of the local `trans` before get_or_create has returned.
NoTrans ==
    [id |-> 0, content_type |-> <<"", "">>, object_id |-> 0,
     lang |-> "", field |-> "", translation |-> None]

\* Ghost values: no set_translation / no populating read is on record.
NoSet == "<unset>"

VARIABLES
    store,          \* rows of the Translation table
    cache,          \* django.core.cache.cache: key -> value
    attrs,          \* attrs[e][name]: the entity's own attributes
    pc,             \* pc[p]: where handler p is in its call
    call,           \* call[p]: the method p runs and its arguments
    trans,          \* trans[p]: local trans / trans_obj
    translations,   \* translations[p]: local list built by translate
    ret,            \* ret[p]: what the call returned (or raised)
    raced,          \* ghost: handlers whose current call hit IntegrityError
    nops,           \* ghost: operations started
    lastSet,        \* ghost: lastSet[k]: text of the set_translation of k that
                    \*   returned last, NoSet once another one has begun
    filled,         \* ghost: filled[k]: value a cache-missing get_translation of
                    \*   k computed and returned, NoSet once a set_translation
                    \*   with k's cache key has begun
    pre,            \* ghost: pre[p]: lastSet of p's key when its get_translation
                    \*   began, NoSet once a set_translation of the key begins
    prev            \* ghost: the call that returned last

vars == <<store, cache, attrs, pc, call, trans, translations, ret, raced,
          nops, lastSet, filled, pre, prev>>

\* ------------------------------------------------------------ pure helpers
\* ContentType.objects.get_for_model(self): one content type per
\* (app_label, model).
get_for_model(e) == <<e.app_label, e.object_name>>

\* Translatable._get_translation_cache_key.
_get_translation_cache_key(e, lang, field) ==
    e.object_name \o ":" \o ToString(e.id) \o ":" \o lang \o ":" \o field

\* getattr(self, field) with None where the '' default belongs.
getattr_self_None(e, field) ==
    IF field \in DOMAIN attrs[e] THEN attrs[e][field] ELSE None

\* getattr(self, field, '').
getattr_self(e, field) ==
    IF field \in DOMAIN attrs[e] THEN attrs[e][field] ELSE ""

\* A cache.get that reads a key nothing was written under.
cache_get_wrong_key(key) == ""

\* cache.get(key, '').
cache_get(key) == IF key \in DOMAIN cache THEN cache[key] ELSE ""

\* cache.add(key, value) where cache.set belongs: an existing entry is kept.
cache_add(key, value) ==
    IF key \in DOMAIN cache THEN cache
    ELSE [k \in DOMAIN cache \cup {key} |-> IF k = key THEN value ELSE cache[k]]

\* cache.set(key, value): the cache after the call.
cache_set(key, value) ==
    [k \in DOMAIN cache \cup {key} |-> IF k = key THEN value ELSE cache[k]]

\* Meta without unique_together: the table has no unique index.
no_unique_together == {}

\* Translation.Meta.unique_together.
unique_together == { <<"content_type", "object_id", "lang", "field">> }

\* The unique index refuses `row`: INSERT raises IntegrityError.
IntegrityError(row) ==
    \E cols \in unique_together :
        \E r \in store : \A i \in 1..Len(cols) : r[cols[i]] = row[cols[i]]

\* A get that never matches: objects.create where get_or_create belongs.
objects_get_never(e, lang, field) == {}

\* The rows Translation.objects.get(object_id, content_type, lang, field)
\* matches.
objects_get(e, lang, field) ==
    { r \in store : /\ r.object_id = e.id
                    /\ r.content_type = get_for_model(e)
                    /\ r.lang = lang
                    /\ r.field = field }

\* A filter on object_id and lang alone: the content type is left out.
objects_filter_any_type(e, lang) ==
    { r \in store : r.object_id = e.id /\ r.lang = lang }

\* Translation.objects.filter(object_id, content_type, lang) under
\* Meta.ordering: the matching rows.
objects_filter(e, lang) ==
    { r \in store : /\ r.object_id = e.id
                    /\ r.content_type = get_for_model(e)
                    /\ r.lang = lang }

\* An insert that copies a text into the new row.
NewRow_with_text(e, lang, field) ==
    [id |-> Cardinality(store) + 1, content_type |-> get_for_model(e),
     object_id |-> e.id, lang |-> lang, field |-> field,
     translation |-> "Hello"]

\* The row get_or_create inserts: the lookup, translation left at its default.
NewRow(e, lang, field) ==
    [id |-> Cardinality(store) + 1, content_type |-> get_for_model(e),
     object_id |-> e.id, lang |-> lang, field |-> field, translation |-> None]

\* The key (entity, lang, field) a call is about.
KeyOf(c) == <<c.self, c.lang, c.field>>
Keys == Entities \X LangArgs \X FieldArgs

\* Number of get_or_create calls one translate makes.
NPairs == Len(LANGUAGES) * Len(translatable_fields)
\* The lang[0] and field of translate's n-th loop iteration (languages outer,
\* fields inner).
PairLang(n) == LANGUAGES[((n - 1) \div Len(translatable_fields)) + 1][1]
\* The field of the n-th iteration of a loop with fields outer.
PairField_outer(n) == translatable_fields[((n - 1) \div Len(LANGUAGES)) + 1]

PairField(n) == translatable_fields[((n - 1) % Len(translatable_fields)) + 1]

\* The lookup of the get_or_create handler p is running.
LookupLang(p) ==
    IF call[p].op = "translate" THEN PairLang(Len(translations[p]) + 1)
    ELSE call[p].lang
LookupField(p) ==
    IF call[p].op = "translate" THEN PairField(Len(translations[p]) + 1)
    ELSE call[p].field

\* (`was` is a ghost: lastSet of the key when the call began.)
NoCall == [op |-> "none", self |-> CHOOSE e \in Entities : TRUE,
           lang |-> "", field |-> "", text |-> "", was |-> NoSet]
NoRet == [text |-> "", objs |-> <<>>, error |-> FALSE]

\* Another handler is inside set_translation for key k.
OtherSetInFlight(p, k) ==
    \E q \in Procs \ {p} :
        pc[q] # "idle" /\ call[q].op = "set_translation" /\ KeyOf(call[q]) = k


\* Collation of the strings the model uses, ascending, as the database
\* compares them for Meta.ordering.
Collate == <<"body", "en", "fr", "slug", "title">>
CollateRank(s) == CHOOSE i \in 1..Len(Collate) : Collate[i] = s

\* No Meta.ordering: rows come back in primary-key order.
RowBefore_by_id(r1, r2) == r1.id <= r2.id

\* Meta.ordering = ['lang', 'field'] (ties, which the unique index excludes,
\* by id).
RowBefore(r1, r2) ==
    \/ CollateRank(r1.lang) < CollateRank(r2.lang)
    \/ /\ r1.lang = r2.lang
       /\ CollateRank(r1.field) < CollateRank(r2.field)
    \/ /\ r1.lang = r2.lang
       /\ r1.field = r2.field
       /\ r1.id <= r2.id

\* A set of rows as the sequence a query returns under Meta.ordering.
RECURSIVE OrderBy(_)
OrderBy(rows) ==
    IF rows = {} THEN <<>>
    ELSE LET first == CHOOSE r \in rows : \A r2 \in rows : RowBefore(r, r2)
         IN  <<first>> \o OrderBy(rows \ {first})

\* set_translation without trans_obj.save(): the table is left as it was.
save_missing(obj) == store

\* trans_obj.save(): UPDATE of the row with obj's primary key.
save(obj) == { r \in store : r.id # obj.id } \cup {obj}

\* A plain create: the IntegrityError of the INSERT reaches the caller.
OnIntegrityErrorRaise == "raise"

\* What get_or_create does when its INSERT raises IntegrityError: it runs
\* the get again.
OnIntegrityError == "goc_reget"

\* ------------------------------------------------------------------- Init
Init ==
    /\ store = {}
    /\ cache = << >>
    /\ attrs = [e \in Entities |-> [title |-> "Hello", body |-> ""]]
    /\ pc = [p \in Procs |-> "idle"]
    /\ call = [p \in Procs |-> NoCall]
    /\ trans = [p \in Procs |-> NoTrans]
    /\ translations = [p \in Procs |-> <<>>]
    /\ ret = [p \in Procs |-> NoRet]
    /\ raced = {}
    /\ nops = 0
    /\ lastSet = [k \in Keys |-> NoSet]
    /\ filled = [k \in Keys |-> NoSet]
    /\ pre = [p \in Procs |-> NoSet]
    /\ prev = [call |-> NoCall, ret |-> NoRet]

\* ---------------------------------------------------------------- actions
\* Handler p starts a call: the bookkeeping every entry shares.
Begin(p, c, at) ==
    /\ pc[p] = "idle"
    /\ nops < MaxOps
    /\ nops' = nops + 1
    /\ pc' = [pc EXCEPT ![p] = at]
    /\ call' = [call EXCEPT ![p] = c]
    /\ UNCHANGED <<store, attrs, trans, translations, raced, prev>>

\* e.translate(): enters the loop over LANGUAGES and translatable_fields.
translate_on(p, e) ==
    /\ Begin(p, [op |-> "translate", self |-> e, lang |-> "",
                 field |-> "", text |-> "", was |-> NoSet], "goc_get")
    /\ UNCHANGED <<cache, ret, lastSet, filled, pre>>

\* translate(self) on any entity.
translate(p) == \E e \in Entities : translate_on(p, e)

\* translations(self, lang): one filtered, ordered query.
translations_(p) ==
    \E e \in Entities, lang \in LangArgs :
        /\ Begin(p, [op |-> "translations", self |-> e, lang |-> lang,
                     field |-> "", text |-> "", was |-> NoSet], "done")
        /\ ret' = [ret EXCEPT ![p] =
                     [NoRet EXCEPT !.objs = OrderBy(objects_filter(e, lang))]]
        /\ UNCHANGED <<cache, lastSet, filled, pre>>

\* e.get_translation_obj(lang, field): enters get_or_create.
get_translation_obj_on(p, e, lang, field) ==
    /\ Begin(p, [op |-> "get_translation_obj", self |-> e, lang |-> lang,
                 field |-> field, text |-> "", was |-> NoSet], "goc_get")
    /\ UNCHANGED <<cache, ret, lastSet, filled, pre>>

\* get_translation_obj(self, lang, field) with any arguments.
get_translation_obj(p) ==
    \E e \in Entities, lang \in LangArgs, field \in FieldArgs :
        get_translation_obj_on(p, e, lang, field)

\* e.get_translation(lang, field): derives the key and reads the cache; a
\* non-empty cached value is returned at once.
get_translation_on(p, e, lang, field) ==
    LET key == _get_translation_cache_key(e, lang, field)
        cached == cache_get(key)
    IN  /\ Begin(p, [op |-> "get_translation", self |-> e, lang |-> lang,
                     field |-> field, text |-> "",
                     was |-> lastSet[<<e, lang, field>>]],
                 IF Not(cached) THEN "goc_get" ELSE "done")
        /\ ret' = [ret EXCEPT ![p] =
                     IF Not(cached) THEN NoRet
                     ELSE [NoRet EXCEPT !.text = cached]]
        /\ pre' = [pre EXCEPT ![p] = lastSet[<<e, lang, field>>]]
        /\ UNCHANGED <<cache, lastSet, filled>>

\* get_translation(self, lang, field) with any arguments.
get_translation(p) ==
    \E e \in Entities, lang \in LangArgs, field \in FieldArgs :
        get_translation_on(p, e, lang, field)

\* e.set_translation(lang, field, text): enters get_translation_obj.
set_translation_on(p, e, lang, field, text) ==
    LET k == <<e, lang, field>>
    IN  /\ Begin(p, [op |-> "set_translation", self |-> e, lang |-> lang,
                     field |-> field, text |-> text, was |-> lastSet[k]],
                 "goc_get")
        /\ lastSet' = [lastSet EXCEPT ![k] = NoSet]
        /\ filled' = [kk \in DOMAIN filled |->
                        IF _get_translation_cache_key(kk[1], kk[2], kk[3])
                           = _get_translation_cache_key(e, lang, field)
                        THEN NoSet ELSE filled[kk]]
        /\ pre' = [q \in Procs |->
                     IF pc[q] # "idle" /\ KeyOf(call[q]) = k
                     THEN NoSet ELSE pre[q]]
        /\ UNCHANGED <<cache, ret>>

\* set_translation(self, lang, field, text) with any arguments.
set_translation(p) ==
    \E e \in Entities, lang \in LangArgs, field \in FieldArgs,
       text \in TextArgs :
        set_translation_on(p, e, lang, field, text)

\* get_or_create has its row: the caller goes on.
Found(p, row) ==
    /\ trans' = [trans EXCEPT ![p] = row]
    /\ IF call[p].op = "translate"
       THEN LET ts == Append(translations[p], row)
            IN  /\ translations' = [translations EXCEPT ![p] = ts]
                /\ IF Len(ts) = NPairs
                   THEN /\ pc' = [pc EXCEPT ![p] = "done"]
                        /\ ret' = [ret EXCEPT ![p] = [NoRet EXCEPT !.objs = ts]]
                   ELSE /\ pc' = [pc EXCEPT ![p] = "goc_get"]
                        /\ UNCHANGED ret
       ELSE /\ UNCHANGED translations
            /\ IF call[p].op = "get_translation_obj"
               THEN /\ pc' = [pc EXCEPT ![p] = "done"]
                    /\ ret' = [ret EXCEPT ![p] =
                                 [NoRet EXCEPT !.objs = <<row>>]]
               ELSE /\ pc' = [pc EXCEPT ![p] =
                                IF call[p].op = "get_translation"
                                THEN "gt_cache_set" ELSE "st_save"]
                    /\ UNCHANGED ret

\* An exception leaves the call.
Raise(p) ==
    /\ pc' = [pc EXCEPT ![p] = "done"]
    /\ ret' = [ret EXCEPT ![p] = [NoRet EXCEPT !.error = TRUE]]
    /\ UNCHANGED <<trans, translations>>

\* get_or_create's self.get(**lookup): its first step, and its step after an
\* IntegrityError. DoesNotExist leads to the INSERT the first time and
\* re-raises the IntegrityError the second time; several matches raise
\* MultipleObjectsReturned.
GocGet(p) ==
    /\ pc[p] \in {"goc_get", "goc_reget"}
    /\ LET found == objects_get(call[p].self, LookupLang(p), LookupField(p))
       IN  IF found = {}
           THEN IF pc[p] = "goc_get"
                THEN /\ pc' = [pc EXCEPT ![p] = "goc_create"]
                     /\ UNCHANGED <<trans, translations, ret>>
                ELSE Raise(p)
           ELSE IF Cardinality(found) > 1
                THEN Raise(p)
                ELSE Found(p, CHOOSE r \in found : TRUE)
    /\ UNCHANGED <<store, cache, attrs, call, raced, nops,
                   lastSet, filled, pre, prev>>

\* get_or_create, on DoesNotExist: INSERT of the new row.
GocCreate(p) ==
    /\ pc[p] = "goc_create"
    /\ LET row == NewRow(call[p].self, LookupLang(p), LookupField(p))
       IN  IF IntegrityError(row)
           THEN /\ IF OnIntegrityError = "goc_reget"
                   THEN /\ pc' = [pc EXCEPT ![p] = "goc_reget"]
                        /\ UNCHANGED <<trans, translations, ret>>
                   ELSE Raise(p)
                /\ raced' = raced \cup {p}
                /\ UNCHANGED store
           ELSE /\ store' = store \cup {row}
                /\ Found(p, row)
                /\ UNCHANGED raced
    /\ UNCHANGED <<cache, attrs, call, nops, lastSet, filled, pre,
                   prev>>

\* get_translation after the cache miss: the record's text, else the entity's
\* own attribute, else ''; the result is written to the cache and returned.
GtCacheSet(p) ==
    /\ pc[p] = "gt_cache_set"
    /\ LET c == call[p]
           key == _get_translation_cache_key(c.self, c.lang, c.field)
           text == trans[p].translation
           result == IF Not(text) THEN getattr_self(c.self, c.field) ELSE text
       IN  /\ cache' = cache_set(key, result)
           /\ ret' = [ret EXCEPT ![p] = [NoRet EXCEPT !.text = result]]
    /\ pc' = [pc EXCEPT ![p] = "done"]
    /\ UNCHANGED <<store, attrs, call, trans, translations, raced, nops,
                   lastSet, filled, pre, prev>>

\* set_translation: trans_obj.translation = text; trans_obj.save().
StSave(p) ==
    /\ pc[p] = "st_save"
    /\ LET obj == [trans[p] EXCEPT !.translation = call[p].text]
       IN  /\ store' = save(obj)
           /\ trans' = [trans EXCEPT ![p] = obj]
    /\ pc' = [pc EXCEPT ![p] = "st_cache_set"]
    /\ UNCHANGED <<cache, attrs, call, translations, ret, raced, nops,
                   lastSet, filled, pre, prev>>

\* set_translation: cache.set(key, text); return trans_obj.
StCacheSet(p) ==
    /\ pc[p] = "st_cache_set"
    /\ LET c == call[p]
           key == _get_translation_cache_key(c.self, c.lang, c.field)
       IN  cache' = cache_set(key, c.text)
    /\ ret' = [ret EXCEPT ![p] = [NoRet EXCEPT !.objs = <<trans[p]>>]]
    /\ pc' = [pc EXCEPT ![p] = "done"]
    /\ UNCHANGED <<store, attrs, call, trans, translations, raced, nops,
                   lastSet, filled, pre, prev>>

\* The call returns to its caller; the ghosts record it.
Return(p) ==
    /\ pc[p] = "done"
    /\ LET c == call[p]
           k == KeyOf(c)
       IN  /\ prev' = [call |-> c, ret |-> ret[p]]
           /\ lastSet' =
                IF c.op = "set_translation" /\ ~ret[p].error
                THEN [lastSet EXCEPT ![k] =
                        IF OtherSetInFlight(p, k) THEN NoSet ELSE c.text]
                ELSE lastSet
           /\ filled' =
                IF /\ c.op = "get_translation"
                   /\ trans[p] # NoTrans
                   /\ ~ret[p].error
                   /\ ~Not(ret[p].text)
                   /\ ~OtherSetInFlight(p, k)
                THEN [filled EXCEPT ![k] = ret[p].text]
                ELSE filled
    /\ pc' = [pc EXCEPT ![p] = "idle"]
    /\ call' = [call EXCEPT ![p] = NoCall]
    /\ trans' = [trans EXCEPT ![p] = NoTrans]
    /\ translations' = [translations EXCEPT ![p] = <<>>]
    /\ ret' = [ret EXCEPT ![p] = NoRet]
    /\ raced' = raced \ {p}
    /\ pre' = [pre EXCEPT ![p] = NoSet]
    /\ UNCHANGED <<store, cache, attrs, nops>>

\* The application assigns a new value to an entity's own title.
SetAttr ==
    /\ nops < MaxOps
    /\ \E e \in Entities, v \in AttrVals :
        /\ attrs[e].title # v
        /\ attrs' = [attrs EXCEPT ![e].title = v]
    /\ nops' = nops + 1
    /\ UNCHANGED <<store, cache, pc, call, trans, translations, ret, raced,
                   lastSet, filled, pre, prev>>

\* ---------------------------------------------------------- specifications
\* One step of handler p.
Step(p) ==
    \/ translate(p)
    \/ translations_(p)
    \/ get_translation_obj(p)
    \/ get_translation(p)
    \/ set_translation(p)
    \/ GocGet(p)
    \/ GocCreate(p)
    \/ GtCacheSet(p)
    \/ StSave(p)
    \/ StCacheSet(p)
    \/ Return(p)

\* Request handlers run concurrently, interleaved at every database and
\* cache access.
Next == (\E p \in Procs : Step(p)) \/ SetAttr

Spec == Init /\ [][Next]_vars

\* Every other handler is idle: p's call overlaps no other call.
Alone(p) == \A q \in Procs \ {p} : pc[q] = "idle"

\* Calls run one after another: no call overlaps another, and attributes
\* change between calls.
SeqNext ==
    \/ \E p \in Procs :
        \/ Alone(p) /\ translate(p)
        \/ Alone(p) /\ translations_(p)
        \/ Alone(p) /\ get_translation_obj(p)
        \/ Alone(p) /\ get_translation(p)
        \/ Alone(p) /\ set_translation(p)
        \/ Alone(p) /\ GocGet(p)
        \/ Alone(p) /\ GocCreate(p)
        \/ Alone(p) /\ GtCacheSet(p)
        \/ Alone(p) /\ StSave(p)
        \/ Alone(p) /\ StCacheSet(p)
        \/ Alone(p) /\ Return(p)
    \/ (\A p \in Procs : pc[p] = "idle") /\ SetAttr

SeqSpec == Init /\ [][SeqNext]_vars


\* The cache key is a pure function of its four components: handlers that
\* each compute one key from inputs drawn from these sets.
KeyEntities ==
    Entities \cup
    { [app_label |-> "library", object_name |-> "Book", id |-> 2],
      [app_label |-> "library", object_name |-> "Page", id |-> 1] }
KeyLangs == {"en", "fr", "en:b"}
KeyFields == {"title", "body", "b:title"}

KeyInit ==
    /\ store = {}
    /\ cache = << >>
    /\ attrs = [e \in Entities |-> [title |-> "Hello", body |-> ""]]
    /\ pc = [p \in Procs |-> "key"]
    /\ call \in [Procs ->
                  { [op |-> "_get_translation_cache_key", self |-> e,
                     lang |-> l, field |-> f, text |-> "", was |-> NoSet] :
                    e \in KeyEntities, l \in KeyLangs, f \in KeyFields }]
    /\ trans = [p \in Procs |-> NoTrans]
    /\ translations = [p \in Procs |-> <<>>]
    /\ ret = [p \in Procs |-> NoRet]
    /\ raced = {}
    /\ nops = 0
    /\ lastSet = [k \in Keys |-> NoSet]
    /\ filled = [k \in Keys |-> NoSet]
    /\ pre = [p \in Procs |-> NoSet]
    /\ prev = [call |-> NoCall, ret |-> NoRet]

\* Handler p computes self._get_translation_cache_key(lang, field).
CacheKey(p) ==
    /\ pc[p] = "key"
    /\ ret' = [ret EXCEPT ![p] =
                 [NoRet EXCEPT !.text =
                    _get_translation_cache_key(call[p].self, call[p].lang,
                                               call[p].field)]]
    /\ pc' = [pc EXCEPT ![p] = "done"]
    /\ UNCHANGED <<store, cache, attrs, call, trans, translations, raced,
                   nops, lastSet, filled, pre, prev>>

KeyNext == \E p \in Procs : CacheKey(p)

KeySpec == KeyInit /\ [][KeyNext]_vars

\* One entity whose attributes are never assigned, calls one after another,
\* lang and field arguments any strings the API accepts (a lang fits
\* max_length=5).
OneEntity == [app_label |-> "library", object_name |-> "Book", id |-> 1]
OneLangs == {"en", "en:b"}
OneFields == {"title", "b:title"}

OneInit ==
    /\ store = {}
    /\ cache = << >>
    /\ attrs = [e \in Entities |-> [title |-> "Hello", body |-> ""]]
    /\ pc = [p \in Procs |-> "idle"]
    /\ call = [p \in Procs |-> NoCall]
    /\ trans = [p \in Procs |-> NoTrans]
    /\ translations = [p \in Procs |-> <<>>]
    /\ ret = [p \in Procs |-> NoRet]
    /\ raced = {}
    /\ nops = 0
    /\ lastSet = [k \in {OneEntity} \X OneLangs \X OneFields |-> NoSet]
    /\ filled = [k \in {OneEntity} \X OneLangs \X OneFields |-> NoSet]
    /\ pre = [p \in Procs |-> NoSet]
    /\ prev = [call |-> NoCall, ret |-> NoRet]

OneNext ==
    \E p \in Procs :
        \/ Alone(p) /\ translate_on(p, OneEntity)
        \/ Alone(p) /\ \E lang \in OneLangs, field \in OneFields :
                           get_translation_obj_on(p, OneEntity, lang, field)
        \/ Alone(p) /\ \E lang \in OneLangs, field \in OneFields :
                           get_translation_on(p, OneEntity, lang, field)
        \/ Alone(p) /\ \E lang \in OneLangs, field \in OneFields,
                           text \in TextArgs :
                           set_translation_on(p, OneEntity, lang, field, text)
        \/ Alone(p) /\ GocGet(p)
        \/ Alone(p) /\ GocCreate(p)
        \/ Alone(p) /\ GtCacheSet(p)
        \/ Alone(p) /\ StSave(p)
        \/ Alone(p) /\ StCacheSet(p)
        \/ Alone(p) /\ Return(p)

OneSpec == OneInit /\ [][OneNext]_vars

\* ------------------------------------------------------------------ claims
\* Handler p has finished a call of method op and not yet returned.
Finished(p, op) == pc[p] = "done" /\ call[p].op = op

\* The call that returned last was method op on the key of p's call.
PrevWas(p, op) ==
    /\ prev.call.op = op
    /\ prev.call.self = call[p].self
    /\ prev.call.lang = call[p].lang
    /\ prev.call.field = call[p].field

\* The entity's own attribute named field, '' when it has none.
OwnAttribute(e, field) ==
    IF field \in {"title", "body"} THEN attrs[e][field] ELSE ""

\* The cache key of the tuple a stored row belongs to.
RowCacheKey(r) ==
    r.content_type[2] \o ":" \o ToString(r.object_id) \o ":" \o r.lang
        \o ":" \o r.field

\* No row of another (content_type, object_id, lang, field) tuple has the
\* cache key of call c.
KeyUnshared(c) ==
    \A r \in store :
        RowCacheKey(r) =
            (c.self.object_name \o ":" \o ToString(c.self.id) \o ":" \o c.lang
                \o ":" \o c.field)
        => /\ r.content_type = <<c.self.app_label, c.self.object_name>>
           /\ r.object_id = c.self.id
           /\ r.lang = c.lang
           /\ r.field = c.field

\* C1: in every reachable state of the concurrent system the table holds at
\* most one row for each (content_type, object_id, lang, field).
C1_AtMostOneRowPerTuple ==
    \A r1, r2 \in store :
        ( /\ r1.content_type = r2.content_type
          /\ r1.object_id = r2.object_id
          /\ r1.lang = r2.lang
          /\ r1.field = r2.field ) => r1 = r2

\* Two handlers raced to create the same row: one INSERT was refused, and
\* that handler holds the row the other one inserted.
C1_RacedCreate ==
    \E p \in raced : \E q \in Procs \ {p} :
        /\ trans[p] # NoTrans
        /\ trans[q] # NoTrans
        /\ trans[p].id = trans[q].id
        /\ Cardinality(store) >= 1

\* C2: a get_translation of key k that runs after a set_translation(k, text)
\* with non-empty text has returned, no set_translation of k having begun
\* since, returns text (calls run one after another).
C2_ReadsLastWrite ==
    \A p \in Procs :
        ( /\ Finished(p, "get_translation")
          /\ lastSet[KeyOf(call[p])] \notin {NoSet, ""} )
        => ret[p].text = lastSet[KeyOf(call[p])]

\* C3: a get_translation that found no non-empty value in the cache and a
\* row without text (just created, or holding '' or None) returns the
\* entity's own attribute named field, and '' without an error when the
\* entity has no such attribute.
C3_FallsBackToAttribute ==
    \A p \in Procs :
        ( /\ Finished(p, "get_translation")
          /\ trans[p] # NoTrans
          /\ Not(trans[p].translation) )
        => /\ ~ret[p].error
           /\ ret[p].text = OwnAttribute(call[p].self, call[p].field)

\* A cache-missing read of a field the entity has no attribute for returned ''.
C3_MissingAttributeRead ==
    \E p \in Procs :
        /\ Finished(p, "get_translation")
        /\ trans[p] # NoTrans
        /\ Not(trans[p].translation)
        /\ call[p].field = "slug"
        /\ ret[p].text = ""

\* C4: a get_translation of key k that begins after a set_translation(k,
\* text) with non-empty text has returned, with no set_translation of k
\* begun since, returns text, whatever reads of k were in flight during the
\* write. (Stated for keys whose cache key no other tuple shares.)
C4_NoStaleReadAfterWrite ==
    \A p \in Procs :
        ( /\ Finished(p, "get_translation")
          /\ pre[p] \notin {NoSet, ""}
          /\ KeyUnshared(call[p]) )
        => ret[p].text = pre[p]

\* C5: two cache keys are equal only when content type, id, lang and field
\* are all equal.
C5_CacheKeyInjective ==
    \A p, q \in Procs :
        ( /\ Finished(p, "_get_translation_cache_key")
          /\ Finished(q, "_get_translation_cache_key")
          /\ ret[p].text = ret[q].text )
        => /\ call[p].self.app_label = call[q].self.app_label
           /\ call[p].self.object_name = call[q].self.object_name
           /\ call[p].self.id = call[q].self.id
           /\ call[p].lang = call[q].lang
           /\ call[p].field = call[q].field

\* C6: get_translation_obj(lang, field) called right after
\* set_translation(lang, field, text) returns the record set_translation
\* returned, with translation equal to text ('' included).
C6_RoundTrip ==
    \A p \in Procs :
        ( /\ Finished(p, "get_translation_obj")
          /\ PrevWas(p, "set_translation") )
        => /\ ~ret[p].error
           /\ ret[p].objs = prev.ret.objs
           /\ ret[p].objs[1].translation = prev.call.text

\* A get_translation_obj has run right after a set_translation of the same
\* key with the empty text.
C6_RoundTripOfEmptyText ==
    \E p \in Procs :
        /\ Finished(p, "get_translation_obj")
        /\ PrevWas(p, "set_translation")
        /\ prev.call.text = ""
        /\ ret[p].objs[1].translation = ""

\* C7: a translate called right after a translate on the same entity leaves
\* the table as it is (no row added, no text changed) and returns what the
\* first call returned.
C7_TranslateIdempotent ==
    [][ \A p \in Procs :
          ( /\ call[p].op = "translate"
            /\ pc[p] # "idle"
            /\ prev.call.op = "translate"
            /\ prev.call.self = call[p].self )
          => /\ store' = store
             /\ (pc'[p] = "done" => ret'[p] = prev.ret) ]_vars

\* A second translate in a row has finished on an entity one of whose rows
\* holds a text.
C7_SecondTranslateDone ==
    \E p \in Procs :
        /\ Finished(p, "translate")
        /\ prev.call.op = "translate"
        /\ prev.call.self = call[p].self
        /\ Len(ret[p].objs) = NPairs
        /\ \E i \in 1..Len(ret[p].objs) : ~Not(ret[p].objs[i].translation)

\* C8: a get_translation of key k that misses the cache and computes a
\* non-empty v leaves v in the cache under the derived key, and every
\* get_translation of k returns v until a set_translation for that derived
\* key begins, also when the entity's attribute has changed (calls run one
\* after another).
C8_PopulatedValueSticks ==
    \A p \in Procs :
        Finished(p, "get_translation") =>
            /\ ( trans[p] # NoTrans /\ ~Not(ret[p].text) )
               => /\ RowCacheKey(trans[p]) \in DOMAIN cache
                  /\ cache[RowCacheKey(trans[p])] = ret[p].text
            /\ filled[KeyOf(call[p])] # NoSet
               => ret[p].text = filled[KeyOf(call[p])]

\* A read returned the value an earlier cache-missing read had computed from
\* the entity's attribute, after the attribute was changed.
C8_StaleFallbackServed ==
    \E p \in Procs :
        /\ Finished(p, "get_translation")
        /\ trans[p] = NoTrans
        /\ filled[KeyOf(call[p])] = "Hello"
        /\ ret[p].text = "Hello"
        /\ attrs[call[p].self].title = "Hola"

\* C9: get_translation called right after set_translation(lang, field, '')
\* returns what it returns for a key that never had a row: the entity's own
\* attribute, '' when there is none; also when a non-empty text had been set
\* and cached before.
C9_EmptyLikeMissing ==
    \A p \in Procs :
        ( /\ Finished(p, "get_translation")
          /\ PrevWas(p, "set_translation")
          /\ prev.call.text = "" )
        => ret[p].text = OwnAttribute(call[p].self, call[p].field)

\* A read right after set_translation(k, '') that replaced a non-empty text
\* returned the entity's non-empty attribute.
C9_EmptyAfterNonEmpty ==
    \E p \in Procs :
        /\ Finished(p, "get_translation")
        /\ PrevWas(p, "set_translation")
        /\ prev.call.text = ""
        /\ prev.call.was \notin {NoSet, ""}
        /\ ret[p].text = "Hello"

\* C10: no get_or_create raises, and every handler that holds a row holds
\* the one row the table has for its lookup.
C10_OneRecordNoError ==
    \A p \in Procs :
        /\ ~ret[p].error
        /\ trans[p] # NoTrans =>
            \E r \in store :
                /\ r.id = trans[p].id
                /\ { x \in store : /\ x.content_type = trans[p].content_type
                                   /\ x.object_id = trans[p].object_id
                                   /\ x.lang = trans[p].lang
                                   /\ x.field = trans[p].field } = {r}

\* Two calls for the same key overlapped, one INSERT was refused, and both
\* calls have finished with the same row.
C10_BothFinished ==
    \E p \in raced : \E q \in Procs \ {p} :
        /\ pc[p] = "done"
        /\ pc[q] = "done"
        /\ trans[p] # NoTrans
        /\ trans[p].id = trans[q].id
        /\ ~ret[p].error
        /\ ~ret[q].error

\* The rows of the table that belong to entity e.
RowsOf(e) ==
    { r \in store : /\ r.content_type = <<e.app_label, e.object_name>>
                    /\ r.object_id = e.id }

\* Handler p takes the first step of a call of method op.
Enters(p, op) == pc[p] = "idle" /\ pc'[p] # "idle" /\ call'[p].op = op

\* C11: every stored row has its lang among the configured language codes
\* and its field among translatable_fields, whatever lang and field the
\* callers passed.
C11_OnlyDeclaredPairs ==
    \A r \in store :
        /\ \E i \in 1..Len(LANGUAGES) : LANGUAGES[i][1] = r.lang
        /\ \E j \in 1..Len(translatable_fields) :
               translatable_fields[j] = r.field

\* C12: a translations(lang) call changes neither the table nor the cache,
\* raises nothing, and returns each row of that entity with that lang once
\* and no other row (the empty sequence when there is none).
C12_TranslationsOnlyReads ==
    [][ \A p \in Procs :
          Enters(p, "translations") =>
              LET c == call'[p]
                  rows == { r \in RowsOf(c.self) : r.lang = c.lang }
                  objs == ret'[p].objs
              IN  /\ store' = store
                  /\ cache' = cache
                  /\ pc'[p] = "done"
                  /\ ~ret'[p].error
                  /\ Len(objs) = Cardinality(rows)
                  /\ { objs[i] : i \in 1..Len(objs) } = rows ]_vars

\* A translations call returned the empty sequence right after a
\* translations call on another entity had returned rows.
C12_EmptyAfterNonEmptyListing ==
    \E p \in Procs :
        /\ Finished(p, "translations")
        /\ ~ret[p].error
        /\ ret[p].objs = <<>>
        /\ prev.call.op = "translations"
        /\ prev.ret.objs # <<>>
        /\ store # {}

\* C13: the sequence translations(lang) returns is strictly ascending by
\* field name.
C13_SortedByField ==
    \A p \in Procs :
        Finished(p, "translations") =>
            \A i, j \in 1..Len(ret[p].objs) :
                i < j => CollateRank(ret[p].objs[i].field)
                             < CollateRank(ret[p].objs[j].field)

\* A translations call returned rows in an order other than the order of
\* their creation.
C13_NotInCreationOrder ==
    \E p \in Procs :
        /\ Finished(p, "translations")
        /\ Len(ret[p].objs) >= 2
        /\ ret[p].objs[1].id > ret[p].objs[2].id

\* C14: a get_translation that finds a non-empty value under its derived key
\* returns that value at once: no row is read or created, the table and the
\* cache stay as they are.
C14_CacheHitTouchesNothing ==
    [][ \A p \in Procs :
          LET c == call'[p]
              key == c.self.object_name \o ":" \o ToString(c.self.id) \o ":"
                         \o c.lang \o ":" \o c.field
          IN  ( /\ Enters(p, "get_translation")
                /\ key \in DOMAIN cache
                /\ cache[key] \notin {"", None} )
              => /\ pc'[p] = "done"
                 /\ ~ret'[p].error
                 /\ ret'[p].text = cache[key]
                 /\ trans'[p] = NoTrans
                 /\ store' = store
                 /\ cache' = cache ]_vars

\* A get_translation was answered from the cache for a tuple that has no row
\* in the table, and none was created.
C14_HitWithoutRow ==
    \E p \in Procs :
        /\ Finished(p, "get_translation")
        /\ trans[p] = NoTrans
        /\ ret[p].text = "x"
        /\ \A r \in RowsOf(call[p].self) :
               r.lang # call[p].lang \/ r.field # call[p].field

\* C15: translate returns, without error, one row for every (language,
\* field) pair, languages outer and fields inner in configured order, each
\* of them a row of the entity that is in the table.
C15_TranslateCoversAllPairs ==
    \A p \in Procs :
        Finished(p, "translate") =>
            LET objs == ret[p].objs
                nf == Len(translatable_fields)
            IN  /\ ~ret[p].error
                /\ Len(objs) = Len(LANGUAGES) * nf
                /\ \A i \in 1..Len(LANGUAGES), j \in 1..nf :
                       LET o == objs[(i - 1) * nf + j]
                       IN  /\ o.lang = LANGUAGES[i][1]
                           /\ o.field = translatable_fields[j]
                           /\ o \in RowsOf(call[p].self)

\* A translate returned all its rows, one of which existed before with a
\* text set by the set_translation that ran just before.
C15_TranslateOverExistingRow ==
    \E p \in Procs :
        /\ Finished(p, "translate")
        /\ prev.call.op = "set_translation"
        /\ prev.call.self = call[p].self
        /\ Len(ret[p].objs) = Len(LANGUAGES) * Len(translatable_fields)
        /\ \E i \in 1..Len(ret[p].objs) : ret[p].objs[i].translation = "x"

\* C16: in every step of the concurrent system each existing row stays in
\* the table, its text changes only in the save of a set_translation that
\* holds this row, and a row that is added has no text.
C16_TextChangesOnlyBySet ==
    [][ /\ \A r \in store :
              \E r2 \in store' :
                  /\ r2.id = r.id
                  /\ r2.translation # r.translation =>
                         \E p \in Procs : /\ call[p].op = "set_translation"
                                          /\ pc[p] = "st_save"
                                          /\ trans[p].id = r.id
        /\ \A r2 \in store' :
              (\A r \in store : r.id # r2.id) => r2.translation \in {"", None}
      ]_vars

\* A get_translation_obj returned a row with its text intact after a
\* translate had run over it.
C16_TextSurvivesTranslate ==
    \E p \in Procs :
        /\ Finished(p, "get_translation_obj")
        /\ prev.call.op = "translate"
        /\ prev.call.self = call[p].self
        /\ ret[p].objs # <<>>
        /\ ret[p].objs[1].translation \in {"x", "y"}

\* An uncached read of (e, lang, field): the text of the stored row if it is
\* non-empty, else the entity's own attribute, else ''.
ReferenceRead(e, lang, field) ==
    LET texts == { r.translation :
                     r \in { x \in RowsOf(e) : x.lang = lang /\ x.field = field } }
                 \ {"", None}
    IN  IF texts # {} THEN CHOOSE t \in texts : TRUE
        ELSE OwnAttribute(e, field)

\* C17: for one entity whose attributes do not change and whose calls do not
\* overlap, every get_translation(lang, field) returns what the uncached
\* reference read of (lang, field) returns.
C17_ReadEqualsReferenceRead ==
    \A p \in Procs :
        Finished(p, "get_translation") =>
            ret[p].text = ReferenceRead(call[p].self, call[p].lang,
                                        call[p].field)

\* What get_translation(lang, field) on e returns when called in this state
\* with no other call running: the non-empty cached value, else the
\* uncached read.
ReadResult(e, lang, field) ==
    LET key == _get_translation_cache_key(e, lang, field)
    IN  IF key \in DOMAIN cache /\ cache[key] \notin {"", None}
        THEN cache[key]
        ELSE ReferenceRead(e, lang, field)

\* The texts stored for (e, lang, field): empty when there is no row.
StoredText(e, lang, field) ==
    { r.translation :
        r \in { x \in RowsOf(e) : x.lang = lang /\ x.field = field } }

\* C18: no step of a set_translation(lang, field, text) on entity E changes,
\* for any tuple other than (E, lang, field), the stored text or what
\* get_translation returns (calls run one after another).
C18_WriteIsolated ==
    [][ \A p \in Procs :
          (pc[p] # "idle" /\ call[p].op = "set_translation") =>
              \A k \in Keys \ {KeyOf(call[p])} :
                  /\ StoredText(k[1], k[2], k[3])' = StoredText(k[1], k[2], k[3])
                  /\ ReadResult(k[1], k[2], k[3])' = ReadResult(k[1], k[2], k[3])
      ]_vars

\* C19: when two set_translation calls for one (entity, lang, field) with
\* different non-empty texts have overlapped and both have completed, no
\* other call being in flight, the value cached under the key is the text of
\* the stored row.
C19_WritersConverge ==
    \A p, q \in Procs :
        ( /\ p # q
          /\ Finished(p, "set_translation")
          /\ Finished(q, "set_translation")
          /\ KeyOf(call[p]) = KeyOf(call[q])
          /\ call[p].text # call[q].text
          /\ call[p].text # ""
          /\ call[q].text # ""
          /\ ~ret[p].error
          /\ ~ret[q].error )
        => LET c == call[p]
               key == c.self.object_name \o ":" \o ToString(c.self.id) \o ":"
                          \o c.lang \o ":" \o c.field
           IN  /\ key \in DOMAIN cache
               /\ StoredText(c.self, c.lang, c.field) = {cache[key]}

====
